---- MODULE Spec2Model ----
(***************************************************************************)
(* Model of micronet/compression/quantization/wqaq/dorefa/quantize.py:     *)
(* the DoReFa activation / weight quantizers, the three quantized layer    *)
(* wrappers, and the graph rewriter prepare / add_quant_op.                *)
(*                                                                         *)
(* Tensors are finite sequences of numbers.  Numbers are exact rationals   *)
(* (plus NaN, the result of 0/0); torch.tanh is tabulated to 6 decimals;   *)
(* where float rounding decides a result, every result is an outcome.      *)
(* A module graph is a heap of nodes indexed by object identity; a         *)
(* parameter is a storage identity together with the tensor stored there.  *)
(***************************************************************************)
EXTENDS Integers, Sequences, FiniteSets, TLC

VARIABLES
    pc,             \* position of the caller: "call", "walk", "done", "error"; "qcall", "qret"
    heap,           \* object identity -> module (sequence index = identity)
    root,           \* the graph handed to prepare
    inplace,        \* prepare's inplace argument
    a_bits,         \* prepare's a_bits argument
    w_bits,         \* prepare's w_bits argument
    model,          \* the graph prepare works on (0 before the call)
    layer_counter,  \* layer_counter[0]
    stack,          \* add_quant_op frames: module and position of its loop
    nstore,         \* number of tensor storages allocated so far
    orig,           \* the heap as it was when prepare was called
    fwd,            \* the last wrapper forward call and its outcome
    qbits,          \* quantizer under test: its bit-width
    qin,            \* quantizer under test: input tensor
    qout            \* quantizer under test: outcomes of the two forward calls

vars == <<pc, heap, root, inplace, a_bits, w_bits, model, layer_counter, stack,
          nstore, orig, fwd, qbits, qin, qout>>

\* ------------------------------------------------------------------ bounds
MaxNodes == 4       \* modules in the input graph
MaxLen == 2         \* elements of a tensor handed to a quantizer
MaxAbs == 4         \* largest magnitude of the small tensor elements
MaxBits == 8        \* largest bit-width below the sentinel 32

\* ------------------------------------------------------------- arithmetic
\* A tensor element is an exact fraction.  The code computes in floating point:
\* its results are the exact ones up to float rounding, which matters only
\* where a quotient is rounded to an integer (see Round).
RECURSIVE Gcd(_, _)
Gcd(a, b) == IF b = 0 THEN a ELSE Gcd(b, a % b)

Abs(n) == IF n < 0 THEN -n ELSE n

NaN == [nan |-> TRUE, num |-> 0, den |-> 1]

\* the number n/d in lowest terms, d # 0
Rat(n, d) ==
    LET g == Gcd(Abs(n), Abs(d))
        s == IF d < 0 THEN -1 ELSE 1
    IN  [nan |-> FALSE, num |-> s * (n \div g), den |-> s * (d \div g)]

Num(n) == Rat(n, 1)

\* a/b < c/d for b, d > 0, by integer parts and then the remainders' reciprocals
RECURSIVE FracLt(_, _, _, _)
FracLt(a, b, c, d) ==
    LET q1 == a \div b
        q2 == c \div d
        r1 == a - q1 * b
        r2 == c - q2 * d
    IN  IF q1 # q2 THEN q1 < q2
        ELSE IF r2 = 0 THEN FALSE
        ELSE IF r1 = 0 THEN TRUE
        ELSE FracLt(d, r2, b, r1)

\* sums over the least common denominator, products with the common factors
\* taken out first
RAdd(x, y) == IF x.nan \/ y.nan THEN NaN
              ELSE LET g == Gcd(x.den, y.den)
                   IN  Rat(x.num * (y.den \div g) + y.num * (x.den \div g),
                           (x.den \div g) * y.den)
RSub(x, y) == IF x.nan \/ y.nan THEN NaN
              ELSE LET g == Gcd(x.den, y.den)
                   IN  Rat(x.num * (y.den \div g) - y.num * (x.den \div g),
                           (x.den \div g) * y.den)
RMul(x, y) == IF x.nan \/ y.nan THEN NaN
              ELSE IF x.num = 0 \/ y.num = 0 THEN Num(0)
              ELSE LET g1 == Gcd(Abs(x.num), y.den)
                       g2 == Gcd(Abs(y.num), x.den)
                   IN  Rat((x.num \div g1) * (y.num \div g2),
                           (x.den \div g2) * (y.den \div g1))
\* x / y.  0/0 is NaN; x/0 for x # 0 (an infinity in the code) is not a value
\* of this model and no call of the model divides a nonzero number by zero
RDiv(x, y) == IF x.nan \/ y.nan THEN NaN
              ELSE IF y.num = 0 THEN CASE x.num = 0 -> NaN
              ELSE RMul(x, Rat(y.den, y.num))
RLt(x, y) == ~x.nan /\ ~y.nan /\ FracLt(x.num, x.den, y.num, y.den)
RLe(x, y) == ~x.nan /\ ~y.nan /\ ~FracLt(y.num, y.den, x.num, x.den)
RAbs(x) == IF x.nan THEN NaN ELSE Rat(Abs(x.num), x.den)

RECURSIVE Pow2(_)
Pow2(n) == IF n = 0 THEN 1 ELSE 2 * Pow2(n - 1)

\* torch.clamp(x, lo, hi); NaN stays NaN
Clamp(x, lo, hi) == IF x.nan THEN NaN
                    ELSE IF RLt(x, lo) THEN lo
                    ELSE IF RLt(hi, x) THEN hi ELSE x

\* Round.forward (torch.round, nearest integer, ties to even) applied to the
\* code's float quotient, of which x is the exact value: the set of integers
\* the code can produce.  Away from a tie the float quotient rounds as x does.
\* When x is exactly a tie k + 1/2 the float quotient is the tie or falls just
\* beside it, on a side that depends on the tensor's dtype and on the width
\* (float32: 0.1f / fl(1/255) = 25.499998 -> 25; float64: 3 * 0.1 / (1/255) =
\* 76.50000000000001 -> 77), so either neighbour is produced.
Round(x) ==
    IF x.nan THEN {NaN}
    ELSE LET f == x.num \div x.den
             r == x.num - f * x.den
         IN  IF 2 * r < x.den THEN {Num(f)}
             ELSE IF 2 * r > x.den THEN {Num(f + 1)}
             ELSE {Num(f), Num(f + 1)}

\* torch.tanh of an integer n >= 0, in millionths (tanh 8 = 0.99999977)
TanhMicro(n) ==
    CASE n = 0 -> 0
      [] n = 1 -> 761594
      [] n = 2 -> 964028
      [] n = 3 -> 995055
      [] n = 4 -> 999329
      [] n = 5 -> 999909
      [] n = 6 -> 999988
      [] n = 7 -> 999998
      [] n \in 8..12 -> 1000000
\* torch.tanh, on the integers of the table
Tanh(x) ==
    IF x.nan THEN NaN
    ELSE CASE x.den = 1 /\ x.num < 0 -> Rat(-TanhMicro(-x.num), 1000000)
           [] x.den = 1 /\ x.num >= 0 -> Rat(TanhMicro(x.num), 1000000)

\* torch.max(torch.abs(t)) of a non-empty tensor; NaN if any element is
RECURSIVE MaxAbsOf(_)
MaxAbsOf(t) ==
    IF Len(t) = 1 THEN RAbs(t[1])
    ELSE LET m == MaxAbsOf(Tail(t))
             h == RAbs(t[1])
         IN  IF h.nan \/ m.nan THEN NaN ELSE IF RLt(h, m) THEN m ELSE h

\* the tensors whose i-th element is one of cands[i]
TensorsOver(cands) ==
    IF Len(cands) = 0 THEN {<<>>}
    ELSE {t \in [1..Len(cands) -> UNION {cands[i] : i \in 1..Len(cands)}] :
            \A i \in 1..Len(cands) : t[i] \in cands[i]}

\* ------------------------------------------------------------ quantizers
\* A forward call yields a set of outcomes: the results the code can produce.
Returned(t) == [raised |-> FALSE, value |-> t]
Raised == [raised |-> TRUE, value |-> <<>>]

\* faulty variant: the pre-scaled input is not clamped
ActQuantizeNoClamp(bits, input) ==
    LET scale == RDiv(Num(1), Num(Pow2(bits) - 1))
        Step(x) == {RMul(k, scale) : k \in Round(RDiv(RMul(x, Rat(1, 10)), scale))}
    IN  {Returned(t) : t \in TensorsOver([i \in 1..Len(input) |-> Step(input[i])])}

\* ActivationQuantizer.forward, else branch
ActQuantize(bits, input) ==
    LET scale == RDiv(Num(1), Num(Pow2(bits) - 1))
        Step(x) == LET output == Clamp(RMul(x, Rat(1, 10)), Num(0), Num(1))
                   IN  {RMul(k, scale) : k \in Round(RDiv(output, scale))}
    IN  {Returned(t) : t \in TensorsOver([i \in 1..Len(input) |-> Step(input[i])])}

\* faulty variant: bits = 1 is quantized like any other width
ActForwardNoAssert(bits, input) ==
    IF bits = 32 THEN {Returned(input)} ELSE ActQuantize(bits, input)

\* faulty variant: the pass-through is taken after the scaling and clamp
ActForwardClampFirst(bits, input) ==
    LET output == [i \in 1..Len(input) |->
                     Clamp(RMul(input[i], Rat(1, 10)), Num(0), Num(1))]
    IN  IF bits = 32 THEN {Returned(output)}
        ELSE IF bits = 1 THEN {Raised}
        ELSE ActQuantize(bits, input)

\* ActivationQuantizer.forward
ActivationQuantizerForward(bits, input) ==
    IF bits = 32 THEN {Returned(input)}
    ELSE IF bits = 1 THEN {Raised}
    ELSE ActQuantize(bits, input)

\* faulty variant: no division by the largest magnitude
WeightQuantizeNoRescale(bits, input) ==
    IF Len(input) = 0 THEN {Raised}
    ELSE LET t == [i \in 1..Len(input) |-> Tanh(input[i])]
             scale == RDiv(Num(1), Num(Pow2(bits) - 1))
             Step(x) == LET n == RAdd(RDiv(x, Num(2)), Rat(1, 2))
                        IN  {RSub(RMul(Num(2), RMul(k, scale)), Num(1)) :
                               k \in Round(RDiv(n, scale))}
         IN  {Returned(u) : u \in TensorsOver([i \in 1..Len(t) |-> Step(t[i])])}

\* WeightQuantizer.forward, else branch; torch.max of an empty tensor raises
WeightQuantize(bits, input) ==
    IF Len(input) = 0 THEN {Raised}
    ELSE LET t == [i \in 1..Len(input) |-> Tanh(input[i])]
             m == MaxAbsOf(t)
             scale == RDiv(Num(1), Num(Pow2(bits) - 1))
             Step(x) == LET n == RAdd(RDiv(RDiv(x, Num(2)), m), Rat(1, 2))
                        IN  {RSub(RMul(Num(2), RMul(k, scale)), Num(1)) :
                               k \in Round(RDiv(n, scale))}
         IN  {Returned(u) : u \in TensorsOver([i \in 1..Len(t) |-> Step(t[i])])}

\* WeightQuantizer.forward
WeightQuantizerForward(bits, input) ==
    IF bits = 32 THEN {Returned(input)}
    ELSE IF bits = 1 THEN {Raised}
    ELSE WeightQuantize(bits, input)

\* ActivationQuantizer.__init__ / WeightQuantizer.__init__: the bit-width is stored as given
\* faulty variant: the wrapper's default a_bits=8 instead of the argument
ActivationQuantizerInitDefault(bits) == [a_bits |-> 8]
ActivationQuantizerInit(bits) == [a_bits |-> bits]
WeightQuantizerInit(bits) == [w_bits |-> bits]

\* ------------------------------------------------------------ module graph
InputKinds == {"Container", "Other", "Conv2d", "ConvTranspose2d", "Linear"}
LayerKinds == {"Conv2d", "ConvTranspose2d", "Linear"}
WrapperKinds == {"QuantConv2d", "QuantConvTranspose2d", "QuantLinear"}

\* isinstance(child, nn.<cls>): the wrappers subclass the layers they wrap
IsInstance(kind, cls) ==
    \/ kind = cls
    \/ cls = "Conv2d" /\ kind = "QuantConv2d"
    \/ cls = "ConvTranspose2d" /\ kind = "QuantConvTranspose2d"
    \/ cls = "Linear" /\ kind = "QuantLinear"

\* a parameter: the identity of its storage and the tensor stored there
None == [data |-> 0, val |-> <<>>]
Param(sid, t) == [data |-> sid, val |-> t]

\* _pair(n): the tuple nn.Conv2d and nn.ConvTranspose2d store for dilation=n
Pair(n) == <<n, n>>
\* the shape parameters of a layer: `shape` stands for the channel or feature
\* counts, kernel size, stride, padding, output padding and padding mode
ConvShape(i) == [shape |-> i, dilation |-> Pair(1), groups |-> 1]
LinearShape(i) == [shape |-> i]
NoShape == [shape |-> 0]

NoQuantizers == [activation_quantizer |-> [a_bits |-> 0],
                 weight_quantizer |-> [w_bits |-> 0],
                 first_layer |-> 0]

\* a module of the input graph: node i of n, child names are the nodes' numbers
InputNode(i, n, parent, kind, nobias) ==
    [kind |-> kind[i],
     children |-> LET ids == SelectSeq([j \in 1..n |-> j], LAMBDA j : parent[j] = i)
                  IN  [k \in 1..Len(ids) |-> [name |-> ids[k], id |-> ids[k]]],
     hp |-> IF kind[i] \in {"Conv2d", "ConvTranspose2d"} THEN ConvShape(i)
            ELSE IF kind[i] = "Linear" THEN LinearShape(i) ELSE NoShape,
     weight |-> IF kind[i] \in LayerKinds
                THEN Param(2 * i - 1, <<Num(i), Num(-1)>>) ELSE None,
     bias |-> IF kind[i] \in LayerKinds /\ i \notin nobias
              THEN Param(2 * i, <<Num(-i)>>) ELSE None]
    @@ NoQuantizers

\* named_children(): the children of module m in declaration order
NamedChildren(h, m) == h[m].children

\* copy.deepcopy(model): every module and parameter gets a new identity
CopyParam(p, ns) == IF p = None THEN None ELSE Param(p.data + ns, p.val)
CopyModule(nd, off, ns) ==
    [nd EXCEPT !.children = [k \in 1..Len(nd.children) |->
                                [name |-> nd.children[k].name,
                                 id |-> nd.children[k].id + off]],
               !.weight = CopyParam(nd.weight, ns),
               !.bias = CopyParam(nd.bias, ns)]
\* faulty variant: copy.copy(model), the copy's children are the original's
CopyRootOnly(h, ns) == h \o [i \in 1..Len(h) |-> h[i]]
DeepCopy(h, ns) == h \o [i \in 1..Len(h) |-> CopyModule(h[i], Len(h), ns)]

\* what a constructor call that raised TypeError leaves in place of an object
TypeError == [kind |-> "TypeError"]

\* QuantConv2d.__init__ with bias=True: fresh weight and bias parameters
QuantConv2dInit(hp, a, w, first_layer, ns) ==
    [kind |-> "QuantConv2d", children |-> <<>>, hp |-> hp,
     weight |-> Param(ns + 1, <<Num(0)>>), bias |-> Param(ns + 2, <<Num(0)>>),
     activation_quantizer |-> ActivationQuantizerInit(a),
     weight_quantizer |-> WeightQuantizerInit(w),
     first_layer |-> first_layer]

\* QuantConvTranspose2d.__init__ with bias=True.  It hands (..., output_padding,
\* dilation, groups, bias, padding_mode) by position to nn.ConvTranspose2d,
\* whose parameters there are (..., output_padding, groups, bias, dilation,
\* padding_mode): the base class gets the dilation as its groups.  add_quant_op
\* passes child.dilation, a tuple, and a tuple for groups raises TypeError; no
\* other kind of call is made.
QuantConvTranspose2dInit(hp, bias, a, w, ns) ==
    LET groups == hp.dilation
    IN  CASE groups \in Seq(Nat) -> TypeError

\* QuantLinear.__init__ with bias=True
QuantLinearInit(hp, a, w, ns) ==
    [kind |-> "QuantLinear", children |-> <<>>, hp |-> hp,
     weight |-> Param(ns + 1, <<Num(0)>>), bias |-> Param(ns + 2, <<Num(0)>>),
     activation_quantizer |-> ActivationQuantizerInit(a),
     weight_quantizer |-> WeightQuantizerInit(w),
     first_layer |-> 0]

\* quant.weight.data = child.weight; quant.bias.data = child.bias
\* (the wrapper's parameters now alias the child's storages)
Transplant(quant, child) ==
    [quant EXCEPT !.weight = Param(child.weight.data, child.weight.val),
                  !.bias = Param(child.bias.data, child.bias.val)]

\* module._modules[name] = quant, name being the name at position idx
\* faulty variant: the entry is deleted and re-inserted, which moves it to the end
SetChildAtEnd(h, m, idx, id) ==
    [h EXCEPT ![m].children =
        SelectSeq(@, LAMBDA c : c.name # h[m].children[idx].name)
        \o <<[name |-> h[m].children[idx].name, id |-> id]>>]
SetChild(h, m, idx, id) == [h EXCEPT ![m].children[idx].id = id]

\* ------------------------------------------------------- wrappers' forward
\* what a wrapper's forward did: the quantizers it called, in order, and the
\* arguments it handed to the convolution / linear primitive
FwdRaised(calls) ==
    [raised |-> TRUE, calls |-> calls, op |-> "", input |-> <<>>,
     weight |-> <<>>, bias |-> <<>>, hp |-> NoShape]
FwdReturned(calls, op, input, weight, bias, hp) ==
    [raised |-> FALSE, calls |-> calls, op |-> op, input |-> input,
     weight |-> weight, bias |-> bias, hp |-> hp]

\* the common tail of the forwards: quantize the weight, run the primitive;
\* one outcome for each result the weight quantizer can produce
QuantWeightAndApply(layer, calls, quant_input, op) ==
    {IF qw.raised THEN FwdRaised(Append(calls, "weight_quantizer"))
     ELSE FwdReturned(Append(calls, "weight_quantizer"), op, quant_input,
                      qw.value, layer.bias.val, layer.hp) :
       qw \in WeightQuantizerForward(layer.weight_quantizer.w_bits, layer.weight.val)}

\* the forwards' head: quantize the input, then the common tail
QuantInputAndApply(layer, input, op) ==
    UNION {IF qi.raised THEN {FwdRaised(<<"activation_quantizer">>)}
           ELSE QuantWeightAndApply(layer, <<"activation_quantizer">>, qi.value, op) :
             qi \in ActivationQuantizerForward(layer.activation_quantizer.a_bits, input)}

\* faulty variant: the input is never quantized
QuantConv2dForwardRawInput(layer, input) ==
    QuantWeightAndApply(layer, <<>>, input, "conv2d")

\* QuantConv2d.forward
QuantConv2dForward(layer, input) ==
    IF layer.first_layer = 0
    THEN QuantInputAndApply(layer, input, "conv2d")
    ELSE QuantWeightAndApply(layer, <<>>, input, "conv2d")

\* QuantLinear.forward
QuantLinearForward(layer, input) ==
    QuantInputAndApply(layer, input, "linear")

\* ------------------------------------------------------------ input spaces
\* bit-widths handed to prepare
PrepareBits == {1, 8}
\* inputs handed to a wrapper's forward
ForwardInputs == {<<Num(-2), Num(7)>>}
\* bit-widths of the quantizers under test
BitWidths == {1, 32} \cup (2..MaxBits)
\* tensor elements: small integers, the clamp's upper edge (10 * 0.1 = 1) and beyond
Elements == {Num(k) : k \in (-MaxAbs..MaxAbs) \cup {10, 12}}
Tensors == UNION {[1..n -> Elements] : n \in 0..MaxLen}

NoForward == [layer |-> 0, input |-> <<>>, out |-> FwdRaised(<<>>)]
NoCall == [quantizer |-> "", out |-> Raised]

\* a rooted ordered tree: node 1 is the root, a container; only containers have children
TreeOK(n, parent, kind) ==
    /\ parent[1] = 0
    /\ kind[1] = "Container"
    /\ \A i \in 2..n : /\ parent[i] >= 1
                       /\ parent[i] < i
                       /\ kind[parent[i]] = "Container"

\* ------------------------------------------------------------------ prepare
Init ==
    /\ pc = "call"
    /\ \E n \in 1..MaxNodes :
         \E parent \in [1..n -> 0..(n - 1)] :
           \E kind \in [1..n -> InputKinds] :
             /\ TreeOK(n, parent, kind)
             /\ \E nobias \in SUBSET {i \in 1..n : kind[i] \in LayerKinds} :
                  /\ heap = [i \in 1..n |-> InputNode(i, n, parent, kind, nobias)]
                  /\ nstore = 2 * n
    /\ root = 1
    /\ inplace \in BOOLEAN
    /\ a_bits \in PrepareBits
    /\ w_bits \in PrepareBits
    /\ model = 0
    /\ layer_counter = 0
    /\ stack = <<>>
    /\ orig = heap
    /\ fwd = NoForward
    /\ qbits = 0
    /\ qin = <<>>
    /\ qout = NoCall

\* prepare, up to the call of add_quant_op on the model
Prepare ==
    /\ pc = "call"
    /\ IF inplace
       THEN /\ model' = root
            /\ UNCHANGED <<heap, nstore>>
       ELSE /\ heap' = DeepCopy(heap, nstore)
            /\ model' = root + Len(heap)
            /\ nstore' = 2 * nstore
    /\ layer_counter' = 0
    /\ stack' = <<[module |-> model', idx |-> 1]>>
    /\ pc' = "walk"
    /\ UNCHANGED <<root, inplace, a_bits, w_bits, orig, fwd, qbits, qin, qout>>

\* the running add_quant_op call and the child its loop is at
Top == stack[Len(stack)]
AtChild == pc = "walk" /\ stack # <<>> /\ Top.idx <= Len(NamedChildren(heap, Top.module))
ChildId == NamedChildren(heap, Top.module)[Top.idx].id
Child == heap[ChildId]
Advance == [stack EXCEPT ![Len(stack)].idx = @ + 1]

\* the body of one branch of add_quant_op's loop, `quant` being the result of
\* the constructor call the branch makes when the counter is above 1.  The
\* constructor may raise TypeError, and so does assigning None to bias.data;
\* either leaves add_quant_op and prepare.  A wrapper built before the raise
\* is referenced by nothing and is left out of the heap.
CountAndWrap(quant) ==
    /\ layer_counter' = layer_counter + 1
    /\ IF layer_counter' > 1
       THEN IF quant.kind = TypeError.kind \/ Child.bias = None
            THEN /\ pc' = "error"
                 /\ UNCHANGED <<heap, stack, nstore>>
            ELSE /\ heap' = SetChild(Append(heap, Transplant(quant, Child)),
                                     Top.module, Top.idx, Len(heap) + 1)
                 /\ nstore' = nstore + 2
                 /\ stack' = Advance
                 /\ pc' = pc
       ELSE /\ stack' = Advance
            /\ UNCHANGED <<heap, nstore, pc>>
    /\ UNCHANGED <<root, inplace, a_bits, w_bits, model, orig, fwd, qbits, qin, qout>>

\* add_quant_op: isinstance(child, nn.Conv2d)
AddQuantOpConv2d ==
    /\ AtChild
    /\ IsInstance(Child.kind, "Conv2d")
    /\ CountAndWrap(QuantConv2dInit(Child.hp, a_bits, w_bits, 0, nstore))

\* add_quant_op: isinstance(child, nn.ConvTranspose2d)
AddQuantOpConvTranspose2d ==
    /\ AtChild
    /\ ~IsInstance(Child.kind, "Conv2d")
    /\ IsInstance(Child.kind, "ConvTranspose2d")
    /\ CountAndWrap(QuantConvTranspose2dInit(Child.hp, TRUE, a_bits, w_bits, nstore))

\* add_quant_op: isinstance(child, nn.Linear)
AddQuantOpLinear ==
    /\ AtChild
    /\ ~IsInstance(Child.kind, "Conv2d")
    /\ ~IsInstance(Child.kind, "ConvTranspose2d")
    /\ IsInstance(Child.kind, "Linear")
    /\ CountAndWrap(QuantLinearInit(Child.hp, a_bits, w_bits, nstore))

\* add_quant_op: else, the recursive call on the child
AddQuantOpRecurse ==
    /\ AtChild
    /\ ~IsInstance(Child.kind, "Conv2d")
    /\ ~IsInstance(Child.kind, "ConvTranspose2d")
    /\ ~IsInstance(Child.kind, "Linear")
    /\ stack' = Append(Advance, [module |-> ChildId, idx |-> 1])
    /\ UNCHANGED <<pc, heap, root, inplace, a_bits, w_bits, model, layer_counter,
                   nstore, orig, fwd, qbits, qin, qout>>

\* add_quant_op: the loop is over; the outermost call returns to prepare, which returns model
AddQuantOpReturn ==
    /\ pc = "walk"
    /\ stack # <<>>
    /\ Top.idx > Len(NamedChildren(heap, Top.module))
    /\ stack' = SubSeq(stack, 1, Len(stack) - 1)
    /\ pc' = IF Len(stack) = 1 THEN "done" ELSE "walk"
    /\ UNCHANGED <<heap, root, inplace, a_bits, w_bits, model, layer_counter,
                   nstore, orig, fwd, qbits, qin, qout>>

\* the modules of the graph under r
RECURSIVE Reach(_, _)
Reach(h, r) ==
    {r} \cup UNION {Reach(h, h[r].children[k].id) : k \in 1..Len(h[r].children)}

\* a forward call on a wrapper of the returned graph (which holds no
\* QuantConvTranspose2d: every construction of one by add_quant_op raises)
WrappersOf(kind) == {id \in Reach(heap, model) : heap[id].kind = kind}

ForwardQuantConv2d ==
    /\ pc = "done"
    /\ \E id \in WrappersOf("QuantConv2d"), x \in ForwardInputs :
         \E out \in QuantConv2dForward(heap[id], x) :
           fwd' = [layer |-> id, input |-> x, out |-> out]
    /\ UNCHANGED <<pc, heap, root, inplace, a_bits, w_bits, model, layer_counter,
                   stack, nstore, orig, qbits, qin, qout>>

ForwardQuantLinear ==
    /\ pc = "done"
    /\ \E id \in WrappersOf("QuantLinear"), x \in ForwardInputs :
         \E out \in QuantLinearForward(heap[id], x) :
           fwd' = [layer |-> id, input |-> x, out |-> out]
    /\ UNCHANGED <<pc, heap, root, inplace, a_bits, w_bits, model, layer_counter,
                   stack, nstore, orig, qbits, qin, qout>>

Next ==
    \/ Prepare
    \/ AddQuantOpConv2d
    \/ AddQuantOpConvTranspose2d
    \/ AddQuantOpLinear
    \/ AddQuantOpRecurse
    \/ AddQuantOpReturn
    \/ ForwardQuantConv2d
    \/ ForwardQuantLinear

Spec == Init /\ [][Next]_vars

\* --------------------------------------------------- quantizers on their own
InitQ ==
    /\ pc = "qcall"
    /\ qbits \in BitWidths
    /\ qin \in Tensors
    /\ qout = NoCall
    /\ heap = <<>>
    /\ root = 0
    /\ inplace = FALSE
    /\ a_bits = 0
    /\ w_bits = 0
    /\ model = 0
    /\ layer_counter = 0
    /\ stack = <<>>
    /\ nstore = 0
    /\ orig = <<>>
    /\ fwd = NoForward

\* ActivationQuantizer(qbits)(qin)
CallActivationQuantizer ==
    /\ pc = "qcall"
    /\ \E out \in ActivationQuantizerForward(ActivationQuantizerInit(qbits).a_bits, qin) :
         qout' = [quantizer |-> "activation", out |-> out]
    /\ pc' = "qret"
    /\ UNCHANGED <<heap, root, inplace, a_bits, w_bits, model, layer_counter,
                   stack, nstore, orig, fwd, qbits, qin>>

\* WeightQuantizer(qbits)(qin)
CallWeightQuantizer ==
    /\ pc = "qcall"
    /\ \E out \in WeightQuantizerForward(WeightQuantizerInit(qbits).w_bits, qin) :
         qout' = [quantizer |-> "weight", out |-> out]
    /\ pc' = "qret"
    /\ UNCHANGED <<heap, root, inplace, a_bits, w_bits, model, layer_counter,
                   stack, nstore, orig, fwd, qbits, qin>>

NextQ == CallActivationQuantizer \/ CallWeightQuantizer

SpecQ == InitQ /\ [][NextQ]_vars

\* ============================================================== properties
\* ---- the input graph, as prepare was handed it
RECURSIVE Preorder(_), PreorderFrom(_, _)
\* the modules under o in depth-first declaration order
Preorder(o) == <<o>> \o PreorderFrom(o, 1)
PreorderFrom(o, k) ==
    IF k > Len(orig[o].children) THEN <<>>
    ELSE Preorder(orig[o].children[k].id) \o PreorderFrom(o, k + 1)

IsEligible(o) == orig[o].kind \in LayerKinds
\* the eligible leaves under o, in traversal order
EligibleUnder(o) == SelectSeq(Preorder(o), IsEligible)
EligibleLeaves == EligibleUnder(root)

WrapperKindOf(kind) ==
    IF kind = "Conv2d" THEN "QuantConv2d"
    ELSE IF kind = "ConvTranspose2d" THEN "QuantConvTranspose2d"
    ELSE "QuantLinear"

Min(a, b) == IF a < b THEN a ELSE b

\* <<o, c>>: module c of the working graph sits where module o sat in the input graph
RECURSIVE Slots(_, _)
Slots(o, c) ==
    {<<o, c>>} \cup
    UNION {Slots(orig[o].children[k].id, heap[c].children[k].id) :
             k \in 1..Min(Len(orig[o].children), Len(heap[c].children))}
AllSlots == Slots(root, model)
InSlot(o) == CHOOSE c \in 1..Len(heap) : <<o, c>> \in AllSlots
OrigOf(c) == CHOOSE o \in 1..Len(orig) : <<o, c>> \in AllSlots

Names(children) == [k \in 1..Len(children) |-> children[k].name]
IsWrapper(nd) == nd.kind \in WrapperKinds
Wrappers == {id \in Reach(heap, model) : IsWrapper(heap[id])}
Storages(h, ids) ==
    ({h[i].weight.data : i \in ids} \cup {h[i].bias.data : i \in ids}) \ {0}
Ended == pc \in {"done", "error"}
OneBit == a_bits = 1 \/ w_bits = 1

RECURSIVE Sum(_)
Sum(s) == IF s = <<>> THEN 0 ELSE Head(s) + Sum(Tail(s))

\* eligible leaves the traversal has been through: for each running call, the
\* children before its loop position, with everything under them, except the
\* child the next call is running on
VisitedBy(j) ==
    LET o == OrigOf(stack[j].module)
    IN  Sum([k \in 1..(stack[j].idx - 1) |->
               IF j < Len(stack) /\ k = stack[j].idx - 1 THEN 0
               ELSE Len(EligibleUnder(orig[o].children[k].id))])
VisitedEligible == Sum([j \in 1..Len(stack) |-> VisitedBy(j)])

\* ---- C1
\* C1: once prepare has ended, the first eligible leaf in depth-first declaration
\* order is still the original, unwrapped layer and every other eligible leaf,
\* at whatever depth, has been replaced by the wrapper of its own kind.
C1_SkipFirstWrapRest ==
    Ended =>
      \A k \in 1..Len(EligibleLeaves) :
        LET o == EligibleLeaves[k]
            c == heap[InSlot(o)]
        IN  IF k = 1 THEN c.kind = orig[o].kind
            ELSE c.kind = WrapperKindOf(orig[o].kind)

\* the calls of prepare that return: those on a graph whose eligible leaves
\* after the first are Conv2d or Linear layers with a bias; for them the
\* first eligible leaf is left as it was and the others are wrapped
C1_WhenReturned ==
    /\ pc = "done" =>
         \A k \in 1..Len(EligibleLeaves) :
           LET o == EligibleLeaves[k]
               c == heap[InSlot(o)]
           IN  IF k = 1 THEN c.kind = orig[o].kind /\ c.hp = orig[o].hp
               ELSE /\ orig[o].kind # "ConvTranspose2d"
                    /\ orig[o].bias # None
                    /\ c.kind = WrapperKindOf(orig[o].kind)
                    /\ c.hp = orig[o].hp
    /\ pc = "error" =>
         \E k \in 2..Len(EligibleLeaves) :
           \/ orig[EligibleLeaves[k]].kind = "ConvTranspose2d"
           \/ orig[EligibleLeaves[k]].bias = None

\* ---- C2
\* C2: with inplace=False the original graph is never changed (kinds, children
\* and their names, weights, biases) and the graph prepare works on and returns
\* shares no module and no parameter storage with it; with inplace=True the
\* returned graph is the provided graph itself, mutated when a leaf was wrapped.
C2_CopyIsolation ==
    /\ ~inplace => \A i \in 1..Len(orig) : heap[i] = orig[i]
    /\ (~inplace /\ model # 0) =>
         /\ Reach(heap, model) \cap (1..Len(orig)) = {}
         /\ Storages(heap, Reach(heap, model)) \cap Storages(orig, 1..Len(orig)) = {}
    /\ (inplace /\ pc = "done") =>
         /\ model = root
         /\ Len(EligibleLeaves) >= 2 => \E i \in 1..Len(orig) : heap[i] # orig[i]

C2_Witness ==
    /\ pc = "done"
    /\ ~inplace
    /\ Wrappers # {}
    /\ \E o \in 1..Len(orig) : orig[o].kind = "Container" /\ o # root

\* ---- C3
\* C3: at every point of prepare every container has the child names it had, in
\* the same order; a wrapper sits in the slot of the leaf it replaces; containers
\* and unsupported leaves are the untouched modules of the working graph; and the
\* layer counter counts exactly the eligible leaves gone through, so that it ends
\* as the number of eligible leaves of the tree when the traversal completes.
C3_ShapePreserved ==
    model # 0 =>
      /\ \A s \in AllSlots :
           LET o == orig[s[1]]
               c == heap[s[2]]
           IN  /\ Names(c.children) = Names(o.children)
               /\ IF o.kind \in LayerKinds
                  THEN /\ c.kind \in {o.kind, WrapperKindOf(o.kind)}
                       /\ c.hp = o.hp
                  ELSE /\ c.kind = o.kind
                       /\ s[2] = s[1] + (IF inplace THEN 0 ELSE Len(orig))
                       /\ c.weight = None /\ c.bias = None
      /\ layer_counter = IF pc = "done" THEN Len(EligibleLeaves)
                         ELSE IF pc = "error" THEN VisitedEligible + 1
                         ELSE VisitedEligible

C3_Witness ==
    /\ pc = "done"
    /\ layer_counter = 2
    /\ Cardinality(Wrappers) = 1
    /\ \E o \in 1..Len(orig) : orig[o].kind = "Other"
    /\ heap[model].children[Len(heap[model].children)].id \notin Wrappers

\* ---- C4
\* C4: prepare completes whether or not the leaves have a bias, and every wrapper
\* has the shape parameters and the bias flag of the leaf it replaces (no bias
\* when the leaf had none) and exactly that leaf's weight and bias.
C4_WrapperMatchesLeaf ==
    /\ pc # "error"
    /\ model # 0 =>
         \A s \in AllSlots :
           LET o == orig[s[1]]
               c == heap[s[2]]
           IN  IsWrapper(c) =>
                 /\ c.hp = o.hp
                 /\ (c.bias = None) = (o.bias = None)
                 /\ c.weight.val = o.weight.val
                 /\ c.bias.val = o.bias.val

\* ---- C9
\* C9 as stated: prepare with a_bits = 1 or w_bits = 1 never returns a graph that
\* holds a 1-bit quantizer.
C9_RejectedAtConstruction ==
    pc = "done" =>
      \A id \in Wrappers : /\ heap[id].activation_quantizer.a_bits # 1
                           /\ heap[id].weight_quantizer.w_bits # 1

\* C9 amended: construction stores any bit-width, so every wrapper prepare builds
\* carries prepare's a_bits and w_bits, 1 included; prepare returns such a graph
\* when it returns; the bit-width is rejected only by a wrapper's forward, which
\* ends in an error exactly when one of the two bit-widths is 1.
C9_RejectedAtForward ==
    /\ \A id \in 1..Len(heap) :
         IsWrapper(heap[id]) => /\ heap[id].activation_quantizer.a_bits = a_bits
                                /\ heap[id].weight_quantizer.w_bits = w_bits
    /\ (pc = "done" /\ Len(EligibleLeaves) >= 2) => Wrappers # {}
    /\ fwd.layer # 0 => (fwd.out.raised <=> OneBit)

C9_Witness ==
    /\ pc = "done"
    /\ a_bits = 1
    /\ w_bits = 8
    /\ fwd.layer \in Wrappers
    /\ fwd.out.raised

\* ---- C10
\* C10: in a returned graph every QuantConv2d has first_layer false; a forward of
\* any wrapper of the graph calls the activation quantizer on its input first and
\* then, unless that call raised, the weight quantizer on its weight, and hands a
\* result of each to the primitive; the eligible layers left unwrapped are the
\* first eligible leaf alone.
C10_EveryWrapperQuantizes ==
    /\ pc = "done" =>
         /\ \A id \in Wrappers : heap[id].first_layer = 0
         /\ {o \in 1..Len(orig) : IsEligible(o) /\ ~IsWrapper(heap[InSlot(o)])}
              = {EligibleLeaves[k] : k \in {1} \cap (1..Len(EligibleLeaves))}
    /\ fwd.layer # 0 =>
         LET layer == heap[fwd.layer]
             QI == ActivationQuantizerForward(a_bits, fwd.input)
             QW == WeightQuantizerForward(w_bits, layer.weight.val)
         IN  IF \A qi \in QI : qi.raised
             THEN fwd.out.raised /\ fwd.out.calls = <<"activation_quantizer">>
             ELSE /\ fwd.out.calls = <<"activation_quantizer", "weight_quantizer">>
                  /\ fwd.out.raised = (\A qw \in QW : qw.raised)
                  /\ ~fwd.out.raised =>
                       /\ Returned(fwd.out.input) \in QI
                       /\ Returned(fwd.out.weight) \in QW
                       /\ fwd.out.bias = layer.bias.val
                       /\ fwd.out.hp = layer.hp

C10_Witness ==
    /\ pc = "done"
    /\ fwd.layer \in Wrappers
    /\ heap[fwd.layer].kind = "QuantConv2d"
    /\ ~fwd.out.raised
    /\ fwd.out.input # fwd.input

\* ---- the quantizers on their own (SpecQ)
ActReturned == pc = "qret" /\ qout.quantizer = "activation"
WeightReturned == pc = "qret" /\ qout.quantizer = "weight"
Quantizing == qbits \in 2..MaxBits
\* the 2^bits values k / (2^bits - 1)
Levels(bits) == {Rat(k, Pow2(bits) - 1) : k \in 0..(Pow2(bits) - 1)}
\* x has the largest absolute value of tensor t
IsLargest(x, t) == \A j \in 1..Len(t) : RLe(RAbs(t[j]), RAbs(x))
AllZero(t) == \A j \in 1..Len(t) : t[j] = Num(0)

\* C5: with bits = 1 neither quantizer's forward returns a value, whatever the input.
C5_OneBitNeverReturns ==
    (pc = "qret" /\ qbits = 1) => qout.out.raised

C5_Witness ==
    /\ ActReturned
    /\ qbits = 1
    /\ Len(qin) >= 1
    /\ qout.out.raised

\* C6 as stated: for 2 <= bits <= 8 every element of the weight quantizer's output,
\* the one of largest absolute value included, is strictly between -1 and 1
\* (stated here for the tensors that have a nonzero element).
C6_OpenInterval ==
    (WeightReturned /\ Quantizing /\ Len(qin) >= 1 /\ ~AllZero(qin)) =>
      /\ ~qout.out.raised
      /\ \A i \in 1..Len(qin) : /\ RLt(Num(-1), qout.out.value[i])
                                /\ RLt(qout.out.value[i], Num(1))

\* C6 amended: for 2 <= bits <= 8 and a non-empty tensor the call returns; if the
\* tensor has a nonzero element every output element lies in the closed interval
\* [-1, 1] and each element of largest absolute value is mapped to an endpoint,
\* -1 if it is negative and 1 if it is positive; if all elements are zero every
\* output element is NaN.
C6_ClosedInterval ==
    (WeightReturned /\ Quantizing /\ Len(qin) >= 1) =>
      /\ ~qout.out.raised
      /\ Len(qout.out.value) = Len(qin)
      /\ \A i \in 1..Len(qin) :
           LET y == qout.out.value[i]
           IN  IF AllZero(qin) THEN y = NaN
               ELSE /\ RLe(Num(-1), y) /\ RLe(y, Num(1))
                    /\ IsLargest(qin[i], qin) =>
                         y = IF RLt(qin[i], Num(0)) THEN Num(-1) ELSE Num(1)

C6_Witness ==
    /\ WeightReturned
    /\ qbits = 3
    /\ qin = <<Num(2), Num(-1)>>
    /\ qout.out.value[1] = Num(1)
    /\ RLt(qout.out.value[2], Num(0))

\* C7: for 2 <= bits <= 8 the activation quantizer returns, and every element of
\* its output is one of the 2^bits values k / (2^bits - 1), k in 0..2^bits - 1,
\* hence in [0, 1]; so the output takes at most 2^bits distinct values.
C7_ActivationLevels ==
    (ActReturned /\ Quantizing) =>
      /\ ~qout.out.raised
      /\ Len(qout.out.value) = Len(qin)
      /\ Cardinality(Levels(qbits)) = Pow2(qbits)
      /\ \A i \in 1..Len(qin) :
           /\ qout.out.value[i] \in Levels(qbits)
           /\ RLe(Num(0), qout.out.value[i])
           /\ RLe(qout.out.value[i], Num(1))
      /\ Cardinality({qout.out.value[i] : i \in 1..Len(qin)}) <= Pow2(qbits)

C7_Witness ==
    /\ ActReturned
    /\ qbits = 2
    /\ qin = <<Num(12), Num(4)>>
    /\ qout.out.value = <<Num(1), Rat(1, 3)>>

\* C8: with bits = 32 both quantizers return their input unchanged.
C8_PassThrough ==
    (pc = "qret" /\ qbits = 32) => /\ ~qout.out.raised
                                   /\ qout.out.value = qin

C8_Witness ==
    /\ ActReturned
    /\ qbits = 32
    /\ qin = <<Num(12), Num(-3)>>
    /\ qout.out.value = qin

====
